---- MODULE Spec2Model ----
(***************************************************************************)
(* Funnel metrics and insight engine of the Kommo dashboard                *)
(* (core/marketing_analytics.py): the MarketingAnalyzer built over a       *)
(* current and an optional previous lead collection, its campaign          *)
(* aggregation, period comparison and rule-based insights, and the derived *)
(* rates of CampaignMetrics and PeriodComparison.                          *)
(*                                                                         *)
(* A DataFrame is a record [columns, rows]; rows is the sequence of lead   *)
(* records in index order (RangeIndex: row i carries label i - 1).         *)
(* Floats are exact rationals [n, d] in lowest terms.                      *)
(***************************************************************************)
EXTENDS Integers, Sequences, FiniteSets, TLC

VARIABLES
    df_leads,           \* the caller's current-period DataFrame
    df_leads_anterior,  \* the caller's previous-period DataFrame, or None
    analyzer,           \* None before construction, Some(self) after
    call,               \* the last call made: [op, ...arguments]
    ret,                \* what that call returned: [exc, val]
    limiter,            \* the RateLimiter, None where there is none
    answered            \* the rate-limit calls made so far: [op, key, now, val]

vars == <<df_leads, df_leads_anterior, analyzer, call, ret, limiter, answered>>

\* ------------------------------------------------------------------------
\* Bounds of the model
\* ------------------------------------------------------------------------

\* Largest number of leads in the current collection.
MaxLeads == 8
\* Largest count given to a CampaignMetrics built directly (rates spec).
MaxCount == 2
\* Lengths of the runs of equal leads in the current and previous collection.
RunLengths == {3, 5}
RunLengthsAnterior == {3}
\* The values of a PeriodComparison built directly are the integers of
\* -MaxValue..MaxValue.
MaxValue == 21
\* The window arguments of the calcular_* functions are timestamps of 1..MaxTime.
MaxTime == 3

\* ------------------------------------------------------------------------
\* Optional values, missing values, rationals
\* ------------------------------------------------------------------------

None == <<>>
Some(x) == <<x>>
Get(o) == o[1]

\* A missing value in an object column (None / NaN) and a missing timestamp (NaT).
NaN == "NaN"
NaT == 0
notna(t) == t # NaT
isna(t) == t = NaT

Abs(x) == IF x < 0 THEN -x ELSE x
Min(a, b) == IF a < b THEN a ELSE b

RECURSIVE GCD(_, _)
GCD(a, b) == IF b = 0 THEN a ELSE GCD(b, a % b)

\* The rational n/d (d > 0) in lowest terms.
Rat(n, d) == LET g == GCD(Abs(n), d) IN [n |-> n \div g, d |-> d \div g]
Num(k) == [n |-> k, d |-> 1]
Zero == Num(0)
RatLess(a, b) == a.n * b.d < b.n * a.d
RatLeq(a, b) == a.n * b.d <= b.n * a.d
RatSub(a, b) == Rat(a.n * b.d - b.n * a.d, a.d * b.d)
RatTimes100(a) == Rat(a.n * 100, a.d)
\* a / b for b # 0
RatDiv(a, b) ==
    IF b.n > 0 THEN Rat(a.n * b.d, a.d * b.n) ELSE Rat(-(a.n * b.d), -(a.d * b.n))

\* The outcome of a division by zero (an exception for Python ints, inf/nan
\* for numpy integers): never a rational.
ZeroDivisionError == [n |-> 1, d |-> 0]
\* metric_value = None
NoValue == [n |-> 0, d |-> 0]

\* Python's a / b * 100 on two counts.
Pct(a, b) == IF b = 0 THEN ZeroDivisionError ELSE Rat(a * 100, b)

\* ------------------------------------------------------------------------
\* Strings of the attribution columns
\* ------------------------------------------------------------------------

NAO_RASTREADO == "(não rastreado)"

\* str.strip() on the strings the model draws.
StrStrip(s) ==
    CASE s = " " -> ""
      [] s = " a" -> "a"
      [] s = "b " -> "b"
      [] OTHER -> s

\* str.lower() on the strings the model draws.
StrLower(s) ==
    CASE s = "Não Informado" -> "não informado"
      [] OTHER -> s

\* sub in s, for the markers generate_insights and get_summary_metrics look for.
StrContains(s, sub) ==
    \/ s = sub
    \/ sub = NAO_RASTREADO /\ s = "x (não rastreado)"
    \/ sub = "não rastreado" /\ s \in {NAO_RASTREADO, "x (não rastreado)"}

\* ------------------------------------------------------------------------
\* Enums and constants of the module
\* ------------------------------------------------------------------------

UTMDimension == {"utm_campaign", "utm_source", "utm_medium"}

POSITIVE == "positive"
WARNING == "warning"
CRITICAL == "critical"
INFO == "info"
OPPORTUNITY == "opportunity"

DESQUALIFICADO_STATUS == "Desqualificados"
THRESHOLD_DESQUALIFICACAO_ALTA == 40
THRESHOLD_DESQUALIFICACAO_CRITICA == 60
THRESHOLD_NOSHOW_ALTO == 30
THRESHOLD_CONVERSAO_BAIXA == 10
MIN_LEADS_ANALISE == 5

DEMO_COMPLETED_STATUSES ==
    {"5 - Demonstração realizada", "6 - Lead quente",
     "5 - VISITA REALIZADA", "6 - EM Negociação"}

AllColumns ==
    {"utm_campaign", "utm_source", "utm_medium",
     "data_demo", "data_noshow", "data_venda", "status"}

\* pd.DataFrame(): no columns, no rows.
EmptyDataFrame == [columns |-> {}, rows |-> <<>>]
empty(df) == df.rows = <<>> \/ df.columns = {}

\* ------------------------------------------------------------------------
\* Lead records the collections are drawn from
\* ------------------------------------------------------------------------

Lead(c, s, m, demo, noshow, venda, st) ==
    [utm_campaign |-> c, utm_source |-> s, utm_medium |-> m,
     data_demo |-> demo, data_noshow |-> noshow, data_venda |-> venda,
     status |-> st]

\* a sale after a completed demo
SaleA == Lead("a", "google", "cpc", 1, NaT, 2, "5 - Demonstração realizada")
\* a new lead without attribution
UntrackedNew == Lead(NaN, "Não Informado", " ", NaT, NaT, NaT, "1 - Novo")
\* disqualified before any demo was scheduled
DesqNoDemoB == Lead("b", "google", NaN, NaT, NaT, NaT, DESQUALIFICADO_STATUS)
\* disqualified in the demo
DesqDemoB == Lead("b ", "", "cpc", 1, NaT, NaT, DESQUALIFICADO_STATUS)
\* a completed status and a sale, no demo timestamp
CompletedNoDemoA ==
    Lead(" a", "google", "x (não rastreado)", NaT, NaT, 2, "6 - Lead quente")
\* disqualified after a no-show
NoShowA == Lead("a", "", " ", 1, 2, NaT, DESQUALIFICADO_STATUS)

LeadRows == {SaleA, UntrackedNew, DesqNoDemoB, DesqDemoB, CompletedNoDemoA, NoShowA}
LeadRowsAnterior == {SaleA, DesqDemoB}
StatusConfigs == {{}, DEMO_COMPLETED_STATUSES}

\* k copies of row r
Run(r, k) == [i \in 1..k |-> r]

\* ------------------------------------------------------------------------
\* MarketingAnalyzer.__init__ and _normalize_utm_columns
\* ------------------------------------------------------------------------

\* NormalizeValue without the fillna: a null value stays null
NormalizeValueNoFill(v) ==
    LET replaced == IF v = "" THEN NAO_RASTREADO ELSE v
    IN StrStrip(replaced)

\* fillna, replace('', ...) and str.strip(), in this order, on one value
NormalizeValue(v) ==
    LET filled == IF v = NaN THEN NAO_RASTREADO ELSE v
        replaced == IF filled = "" THEN NAO_RASTREADO ELSE filled
    IN StrStrip(replaced)

NormalizeRow(r, columns) ==
    [f \in DOMAIN r |->
        IF f \in UTMDimension /\ f \in columns THEN NormalizeValue(r[f]) ELSE r[f]]

\* the loop body of _normalize_utm_columns for one DataFrame (never None here)
NormalizeFrame(df) ==
    IF empty(df) THEN df
    ELSE [df EXCEPT !.rows = [i \in DOMAIN df.rows |-> NormalizeRow(df.rows[i], df.columns)]]

\* __init__: self.df, self.df_anterior, self.demo_completed_statuses;
\* both frames are copies, normalized in place.
NewAnalyzer(leads, leads_anterior, demo_completed_statuses) ==
    [df |-> IF ~empty(leads) THEN NormalizeFrame(leads) ELSE EmptyDataFrame,
     df_anterior |->
        IF leads_anterior # None /\ ~empty(Get(leads_anterior))
        THEN Some(NormalizeFrame(Get(leads_anterior)))
        ELSE None,
     demo_completed_statuses |-> demo_completed_statuses]

\* ------------------------------------------------------------------------
\* CampaignMetrics and its derived rates
\* ------------------------------------------------------------------------

CampaignMetrics(name, leads, agendadas, realizadas, desq, vendas, noshows) ==
    [name |-> name, total_leads |-> leads,
     demos_agendadas |-> agendadas, demos_realizadas |-> realizadas,
     desqualificados |-> desq, vendas |-> vendas, noshows |-> noshows]

taxa_agendamento(m) ==
    IF m.total_leads > 0 THEN Pct(m.demos_agendadas, m.total_leads) ELSE Zero

taxa_realizacao(m) ==
    IF m.demos_agendadas > 0 THEN Pct(m.demos_realizadas, m.demos_agendadas) ELSE Zero

\* taxa_desqualificacao over the sales in place of the demos realizadas
taxa_desqualificacao_over_vendas(m) ==
    IF m.vendas > 0 THEN Pct(m.desqualificados, m.vendas) ELSE Zero

taxa_desqualificacao(m) ==
    IF m.demos_realizadas > 0 THEN Pct(m.desqualificados, m.demos_realizadas) ELSE Zero

\* taxa_conversao without its guard on the denominator
taxa_conversao_unguarded(m) == Pct(m.vendas, m.demos_realizadas)

taxa_conversao(m) ==
    IF m.demos_realizadas > 0 THEN Pct(m.vendas, m.demos_realizadas) ELSE Zero

taxa_noshow(m) ==
    IF m.demos_agendadas > 0 THEN Pct(m.noshows, m.demos_agendadas) ELSE Zero

taxa_aproveitamento(m) ==
    IF m.demos_realizadas > 0
    THEN Pct(m.demos_realizadas - m.desqualificados, m.demos_realizadas)
    ELSE Zero

eficiencia_funil(m) ==
    IF m.total_leads > 0 THEN Pct(m.vendas, m.total_leads) ELSE Zero

\* ------------------------------------------------------------------------
\* MarketingAnalyzer.get_campaign_metrics
\* ------------------------------------------------------------------------

NoExc == "no exception"
KeyError == "KeyError"
Result(self, exc, val) == [self |-> self, exc |-> exc, val |-> val]

\* Series.unique(): the distinct values in order of first appearance
RECURSIVE unique(_)
unique(s) ==
    IF s = <<>> THEN <<>>
    ELSE LET front == unique(SubSeq(s, 1, Len(s) - 1))
             last == s[Len(s)]
         IN IF \E i \in DOMAIN front : front[i] = last THEN front
            ELSE Append(front, last)

Column(df, col) == [i \in DOMAIN df.rows |-> df.rows[i][col]]

\* df_campaign = self.df[self.df[dimension] == campaign_name], as row positions;
\* == is False on a null value.
GroupRows(df, dimension, campaign_name) ==
    {i \in DOMAIN df.rows :
        campaign_name # NaN /\ df.rows[i][dimension] = campaign_name}

\* The lookup df_campaign['data_demo'] of the demos-realizadas mask fails when
\* the column is absent.
MaskRaises(self) ==
    /\ "status" \in self.df.columns
    /\ self.demo_completed_statuses # {}
    /\ "data_demo" \notin self.df.columns

\* The demos-realizadas mask at row i of the group idx.  Without a data_noshow
\* column the fallback Series carries labels 0..len-1 and aligns by label.
DemoRealizadaMask(self, idx, i) ==
    LET r == self.df.rows[i]
        noshow_isna ==
            IF "data_noshow" \in self.df.columns THEN isna(r.data_noshow)
            ELSE i - 1 < Cardinality(idx)
    IN \/ r.status \in self.demo_completed_statuses
       \/ /\ r.status = DESQUALIFICADO_STATUS
          /\ notna(r.data_demo)
          /\ noshow_isna

\* The loop body: the CampaignMetrics of one group.
GroupMetrics(self, dimension, campaign_name) ==
    LET df == self.df
        idx == GroupRows(df, dimension, campaign_name)
        Count(P(_)) == Cardinality({i \in idx : P(i)})
    IN CampaignMetrics(
        campaign_name,
        Cardinality(idx),
        IF "data_demo" \in df.columns
            THEN Count(LAMBDA i : notna(df.rows[i].data_demo)) ELSE 0,
        IF "status" \in df.columns /\ self.demo_completed_statuses # {}
            THEN Count(LAMBDA i : DemoRealizadaMask(self, idx, i)) ELSE 0,
        IF "status" \in df.columns
            THEN Count(LAMBDA i : df.rows[i].status = DESQUALIFICADO_STATUS) ELSE 0,
        IF "data_venda" \in df.columns
            THEN Count(LAMBDA i : notna(df.rows[i].data_venda)) ELSE 0,
        IF "data_noshow" \in df.columns
            THEN Count(LAMBDA i : notna(df.rows[i].data_noshow)) ELSE 0)

\* list.sort(key=total_leads, reverse=True): stable, equal keys keep their order
RECURSIVE SortByTotalLeads(_)
SortByTotalLeads(s) ==
    IF s = <<>> THEN <<>>
    ELSE LET front == SortByTotalLeads(SubSeq(s, 1, Len(s) - 1))
             x == s[Len(s)]
             k == Cardinality({i \in DOMAIN front :
                                 front[i].total_leads >= x.total_leads})
         IN SubSeq(front, 1, k) \o <<x>> \o SubSeq(front, k + 1, Len(front))

\* KeptGroups skipping also the groups of exactly min_leads leads (<= for <)
KeptGroupsStrict(df, dimension, min_leads) ==
    SelectSeq(unique(Column(df, dimension)),
              LAMBDA name : Cardinality(GroupRows(df, dimension, name)) > min_leads)

\* KeptGroups without the `continue` of the groups below min_leads
KeptGroupsUnfiltered(df, dimension, min_leads) == unique(Column(df, dimension))

\* The group names that pass the min_leads filter, in order of first appearance.
KeptGroups(df, dimension, min_leads) ==
    SelectSeq(unique(Column(df, dimension)),
              LAMBDA name : Cardinality(GroupRows(df, dimension, name)) >= min_leads)

\* The body of get_campaign_metrics: what it raises and the list it returns.
MetricsList(self, dimension, min_leads) ==
    IF empty(self.df) \/ dimension \notin self.df.columns
    THEN [exc |-> NoExc, val |-> <<>>]
    ELSE LET names == KeptGroups(self.df, dimension, min_leads)
         IN IF names # <<>> /\ MaskRaises(self)
            THEN [exc |-> KeyError, val |-> <<>>]
            ELSE [exc |-> NoExc,
                  val |-> SortByTotalLeads(
                        [i \in DOMAIN names |-> GroupMetrics(self, dimension, names[i])])]

\* get_campaign_metrics rebinding self.df to the rows of the last group it scanned
\* (self.df = self.df[...] in place of df_campaign = self.df[...])
get_campaign_metrics_rebinding(self, dimension, min_leads) ==
    LET r == MetricsList(self, dimension, min_leads)
        names == unique(Column(self.df, dimension))
    IN Result(
        IF empty(self.df) \/ dimension \notin self.df.columns THEN self
        ELSE [self EXCEPT !.df.rows = SelectSeq(self.df.rows,
                                LAMBDA row : row[dimension] = names[Len(names)])],
        r.exc, r.val)

\* The method: self.df is only read (df_campaign is a new frame), so the
\* analyzer is left as it was.
get_campaign_metrics(self, dimension, min_leads) ==
    LET r == MetricsList(self, dimension, min_leads)
    IN Result(self, r.exc, r.val)

\* ------------------------------------------------------------------------
\* PeriodComparison and MarketingAnalyzer.compare_periods
\* ------------------------------------------------------------------------

PeriodComparison(metric_name, current_value, previous_value) ==
    [metric_name |-> metric_name, current_value |-> current_value,
     previous_value |-> previous_value]

absolute_change(c) == RatSub(c.current_value, c.previous_value)

\* percentage_change with the operands of the difference exchanged
percentage_change_reversed(c) ==
    IF c.previous_value = Zero
    THEN (IF RatLess(Zero, c.current_value) THEN Num(100) ELSE Zero)
    ELSE RatTimes100(RatDiv(RatSub(c.previous_value, c.current_value), c.previous_value))

\* percentage_change returning 0 for every previous_value of 0
percentage_change_zero_base(c) ==
    IF c.previous_value = Zero THEN Zero
    ELSE RatTimes100(RatDiv(RatSub(c.current_value, c.previous_value), c.previous_value))

percentage_change(c) ==
    IF c.previous_value = Zero
    THEN (IF RatLess(Zero, c.current_value) THEN Num(100) ELSE Zero)
    ELSE RatTimes100(RatDiv(RatSub(c.current_value, c.previous_value), c.previous_value))

\* trend with the band open at its ends (>= and <= for > and <)
trend_open_band(c) ==
    IF RatLeq(Num(5), percentage_change(c)) THEN "up"
    ELSE IF RatLeq(percentage_change(c), Num(-5)) THEN "down"
    ELSE "stable"

trend(c) ==
    IF RatLess(Num(5), percentage_change(c)) THEN "up"
    ELSE IF RatLess(percentage_change(c), Num(-5)) THEN "down"
    ELSE "stable"

\* metrics_to_compare, in its order
MetricLabels ==
    <<"Total Leads", "Demos Realizadas", "% Desqualificação", "% Conversão",
      "% No-show", "Vendas">>

\* getattr(m, attr, 0) for the attribute behind each label
MetricValue(m, label) ==
    CASE label = "Total Leads" -> Num(m.total_leads)
      [] label = "Demos Realizadas" -> Num(m.demos_realizadas)
      [] label = "% Desqualificação" -> taxa_desqualificacao(m)
      [] label = "% Conversão" -> taxa_conversao(m)
      [] label = "% No-show" -> taxa_noshow(m)
      [] label = "Vendas" -> Num(m.vendas)

Names(metrics_list) == {metrics_list[i].name : i \in DOMAIN metrics_list}

\* dict.get(campaign): the metrics of that name, if any
Lookup(metrics_list, campaign) ==
    IF campaign \in Names(metrics_list)
    THEN Some(metrics_list[CHOOSE i \in DOMAIN metrics_list :
                                metrics_list[i].name = campaign])
    ELSE None

\* the six comparisons of one campaign
CampaignComparisons(curr, prev) ==
    [k \in DOMAIN MetricLabels |->
        PeriodComparison(
            MetricLabels[k],
            IF curr # None THEN MetricValue(Get(curr), MetricLabels[k]) ELSE Zero,
            IF prev # None THEN MetricValue(Get(prev), MetricLabels[k]) ELSE Zero)]

\* analyzer_anterior, built over self.df_anterior
AnalyzerAnterior(self) ==
    NewAnalyzer(Get(self.df_anterior), None, self.demo_completed_statuses)

\* all_campaigns taken as the campaigns present in both periods
all_campaigns_intersection(current_metrics, previous_metrics) ==
    Names(current_metrics) \cap Names(previous_metrics)

\* all_campaigns = set(current_metrics.keys()) | set(previous_metrics.keys())
all_campaigns(current_metrics, previous_metrics) ==
    Names(current_metrics) \cup Names(previous_metrics)

\* compare_periods with analyzer_anterior sharing self.df_anterior instead of
\* copying it: the constructor's normalization rewrites self.df_anterior
ComparedPeriodsInPlace(self, dimension) ==
    LET shared == [self EXCEPT !.df_anterior = Some(AnalyzerAnterior(self).df)]
        current == get_campaign_metrics(shared, dimension, 1)
        previous == get_campaign_metrics(AnalyzerAnterior(self), dimension, 1)
    IN IF current.exc # NoExc THEN Result(current.self, current.exc, <<>>)
       ELSE IF previous.exc # NoExc THEN Result(current.self, previous.exc, <<>>)
       ELSE Result(current.self, NoExc,
               [campaign \in all_campaigns(current.val, previous.val) |->
                   CampaignComparisons(Lookup(current.val, campaign),
                                       Lookup(previous.val, campaign))])

\* compare_periods past its early return: the dict built, as the mapping from
\* campaign to its six comparisons.
ComparedPeriods(self, dimension) ==
    LET current == get_campaign_metrics(self, dimension, 1)
        previous == get_campaign_metrics(AnalyzerAnterior(self), dimension, 1)
    IN IF current.exc # NoExc THEN Result(current.self, current.exc, <<>>)
       ELSE IF previous.exc # NoExc THEN Result(current.self, previous.exc, <<>>)
       ELSE Result(current.self, NoExc,
               [campaign \in all_campaigns(current.val, previous.val) |->
                   CampaignComparisons(Lookup(current.val, campaign),
                                       Lookup(previous.val, campaign))])

\* compare_periods without its early return: MarketingAnalyzer(None) fails on
\* df_leads.empty
compare_periods_unguarded(self, dimension) ==
    IF self.df_anterior = None THEN Result(self, "AttributeError", <<>>)
    ELSE ComparedPeriods(self, dimension)

\* The method; {} when there is no previous period.
compare_periods(self, dimension) ==
    IF self.df_anterior = None \/ empty(Get(self.df_anterior))
    THEN Result(self, NoExc, <<>>)
    ELSE ComparedPeriods(self, dimension)

\* ------------------------------------------------------------------------
\* MarketingInsight and MarketingAnalyzer.generate_insights
\* ------------------------------------------------------------------------

\* campaign = None
NoCampaign == NaN

MarketingInsight(type, title, metric_value, metric_label, campaign, priority) ==
    [type |-> type, title |-> title, metric_value |-> metric_value,
     metric_label |-> metric_label, campaign |-> campaign, priority |-> priority]

RECURSIVE SumTotalLeads(_)
SumTotalLeads(ms) ==
    IF ms = <<>> THEN 0 ELSE ms[1].total_leads + SumTotalLeads(Tail(ms))

Take(s, k) == SubSeq(s, 1, Min(k, Len(s)))

\* max(ms, key=...), keys[i] the key of ms[i]: the first element whose key no
\* other exceeds
FirstMax(ms, keys) ==
    ms[CHOOSE i \in DOMAIN ms :
        /\ \A j \in DOMAIN ms : ~RatLess(keys[i], keys[j])
        /\ \A j \in 1..(i - 1) : RatLess(keys[j], keys[i])]

\* A sort by priority that puts each insight before the earlier ones of its
\* priority
RECURSIVE SortByPriorityTiesReversed(_)
SortByPriorityTiesReversed(s) ==
    IF s = <<>> THEN <<>>
    ELSE LET front == SortByPriorityTiesReversed(SubSeq(s, 1, Len(s) - 1))
             x == s[Len(s)]
             k == Cardinality({i \in DOMAIN front : front[i].priority < x.priority})
         IN SubSeq(front, 1, k) \o <<x>> \o SubSeq(front, k + 1, Len(front))

\* insights.sort(key=priority): stable
RECURSIVE SortByPriority(_)
SortByPriority(s) ==
    IF s = <<>> THEN <<>>
    ELSE LET front == SortByPriority(SubSeq(s, 1, Len(s) - 1))
             x == s[Len(s)]
             k == Cardinality({i \in DOMAIN front : front[i].priority <= x.priority})
         IN SubSeq(front, 1, k) \o <<x>> \o SubSeq(front, k + 1, Len(front))

RECURSIVE Concat(_)
Concat(ss) == IF ss = <<>> THEN <<>> ELSE ss[1] \o Concat(Tail(ss))

InsufficientData ==
    MarketingInsight(INFO, "Dados Insuficientes", NoValue, "", NoCampaign, 3)

\* The volume insight for the last group of the ranking, the smallest
RuleVolumeSmallest(ms) ==
    <<MarketingInsight(POSITIVE, "Maior Volume de Leads", Num(ms[Len(ms)].total_leads),
                       "leads", ms[Len(ms)].name, 2)>>

\* 1. best campaign by volume
RuleVolume(ms) ==
    <<MarketingInsight(POSITIVE, "Maior Volume de Leads", Num(ms[1].total_leads),
                       "leads", ms[1].name, 2)>>

\* 2. best conversion rate
RuleConversion(ms) ==
    LET with_sales == SelectSeq(ms, LAMBDA m : m.vendas > 0)
        best == FirstMax(with_sales, [i \in DOMAIN with_sales |-> taxa_conversao(with_sales[i])])
    IN IF with_sales = <<>> THEN <<>>
       ELSE <<MarketingInsight(POSITIVE, "Melhor Taxa de Conversão",
                               taxa_conversao(best), "%", best.name, 1)>>

\* The disqualification rule without the cap of three insights
RuleDesqualificacaoUncapped(ms) ==
    LET high == SelectSeq(ms, LAMBDA m :
                        RatLeq(Num(THRESHOLD_DESQUALIFICACAO_ALTA),
                               taxa_desqualificacao(m)))
        critical(m) ==
            RatLeq(Num(THRESHOLD_DESQUALIFICACAO_CRITICA), taxa_desqualificacao(m))
    IN [k \in DOMAIN high |->
          MarketingInsight(IF critical(high[k]) THEN CRITICAL ELSE WARNING,
                           "Alta Taxa de Desqualificação",
                           taxa_desqualificacao(high[k]), "%", high[k].name,
                           IF critical(high[k]) THEN 1 ELSE 2)]

\* 3. high disqualification
RuleDesqualificacao(ms) ==
    LET high == Take(SelectSeq(ms, LAMBDA m :
                        RatLeq(Num(THRESHOLD_DESQUALIFICACAO_ALTA),
                               taxa_desqualificacao(m))), 3)
        critical(m) ==
            RatLeq(Num(THRESHOLD_DESQUALIFICACAO_CRITICA), taxa_desqualificacao(m))
    IN [k \in DOMAIN high |->
          MarketingInsight(IF critical(high[k]) THEN CRITICAL ELSE WARNING,
                           "Alta Taxa de Desqualificação",
                           taxa_desqualificacao(high[k]), "%", high[k].name,
                           IF critical(high[k]) THEN 1 ELSE 2)]

\* 4. high no-show
RuleNoShow(ms) ==
    LET high == Take(SelectSeq(ms, LAMBDA m :
                        /\ RatLeq(Num(THRESHOLD_NOSHOW_ALTO), taxa_noshow(m))
                        /\ m.demos_agendadas >= 5), 2)
    IN [k \in DOMAIN high |->
          MarketingInsight(WARNING, "Alta Taxa de No-show", taxa_noshow(high[k]),
                           "%", high[k].name, 2)]

\* 5. low conversion with good volume
RuleOportunidade(ms) ==
    LET low == Take(SelectSeq(ms, LAMBDA m :
                        /\ RatLess(taxa_conversao(m), Num(THRESHOLD_CONVERSAO_BAIXA))
                        /\ m.demos_realizadas >= 10
                        /\ m.vendas >= 1), 2)
    IN [k \in DOMAIN low |->
          MarketingInsight(OPPORTUNITY, "Oportunidade de Melhoria",
                           taxa_conversao(low[k]), "%", low[k].name, 2)]

IsNotTracked(name) ==
    \/ StrContains(StrLower(name), NAO_RASTREADO)
    \/ StrContains(StrLower(name), "não informado")

\* 6. untracked leads
RuleRastreamento(ms) ==
    LET not_tracked == SelectSeq(ms, LAMBDA m : IsNotTracked(m.name))
        total_leads == SumTotalLeads(ms)
        total_not_tracked == SumTotalLeads(not_tracked)
        pct_not_tracked ==
            IF total_leads > 0 THEN Pct(total_not_tracked, total_leads) ELSE Zero
    IN IF not_tracked # <<>> /\ RatLess(Num(10), pct_not_tracked)
       THEN <<MarketingInsight(WARNING, "Rastreamento Incompleto", pct_not_tracked,
                               "%", NoCampaign, 2)>>
       ELSE <<>>

\* 7. the insights of one PeriodComparison of one campaign
RuleComparison(campaign, comp) ==
    (IF /\ comp.metric_name = "Vendas"
        /\ RatLess(percentage_change(comp), Num(-20))
        /\ RatLeq(Num(3), comp.previous_value)
     THEN <<MarketingInsight(CRITICAL, "Queda em Vendas", percentage_change(comp),
                             "%", campaign, 1)>>
     ELSE <<>>)
    \o
    (IF /\ comp.metric_name = "% Desqualificação"
        /\ RatLess(Num(15), absolute_change(comp))
        /\ RatLeq(Num(30), comp.current_value)
     THEN <<MarketingInsight(WARNING, "Aumento em Desqualificação",
                             absolute_change(comp), "pp", campaign, 2)>>
     ELSE <<>>)

\* The orders in which the keys of a dict built from a set can be iterated.
Orders(S) ==
    {o \in [1..Cardinality(S) -> S] : \A i, j \in DOMAIN o : o[i] = o[j] => i = j}

\* 7. the loops over comparisons.items(), iterated in `order`, and over each
\* campaign's list
RulePeriodos(comparisons, order) ==
    Concat([k \in DOMAIN order |->
        Concat([c \in DOMAIN comparisons[order[k]] |->
            RuleComparison(order[k], comparisons[order[k]][c])])])

\* 8. best funnel efficiency
RuleEficiencia(ms) ==
    LET best == FirstMax(ms, [i \in DOMAIN ms |-> eficiencia_funil(ms[i])])
    IN IF RatLess(Zero, eficiencia_funil(best))
       THEN <<MarketingInsight(POSITIVE, "Melhor Eficiência de Funil",
                               eficiencia_funil(best), "%", best.name, 2)>>
       ELSE <<>>

\* 9. campaigns without sales
RuleSemConversao(ms) ==
    LET no_sales == SelectSeq(ms, LAMBDA m : m.vendas = 0 /\ m.demos_realizadas >= 5)
    IN IF no_sales # <<>>
       THEN <<MarketingInsight(WARNING, "Campanhas Sem Conversão", Num(Len(no_sales)),
                               "campanhas", NoCampaign, 2)>>
       ELSE <<>>

\* The keys of comparisons were inserted in the iteration order of the set
\* all_campaigns, which Python does not fix for strings: `order` is that order.
generate_insights(self, dimension, max_insights, order) ==
    LET metrics == get_campaign_metrics(self, dimension, MIN_LEADS_ANALISE)
        ms == metrics.val
        has_previous == self.df_anterior # None /\ ~empty(Get(self.df_anterior))
        compared == compare_periods(metrics.self, dimension)
    IN IF metrics.exc # NoExc THEN Result(metrics.self, metrics.exc, <<>>)
       ELSE IF ms = <<>> THEN Result(metrics.self, NoExc, <<InsufficientData>>)
       ELSE IF has_previous /\ compared.exc # NoExc
            THEN Result(compared.self, compared.exc, <<>>)
       ELSE Result(
            IF has_previous THEN compared.self ELSE metrics.self,
            NoExc,
            Take(SortByPriority(
                    RuleVolume(ms) \o RuleConversion(ms) \o RuleDesqualificacao(ms)
                    \o RuleNoShow(ms) \o RuleOportunidade(ms) \o RuleRastreamento(ms)
                    \o (IF has_previous THEN RulePeriodos(compared.val, order) ELSE <<>>)
                    \o RuleEficiencia(ms) \o RuleSemConversao(ms)),
                 max_insights))

\* ------------------------------------------------------------------------
\* MarketingAnalyzer.get_summary_metrics
\* ------------------------------------------------------------------------

\* str.contains('não rastreado|não informado', case=False, na=False)
ContainsNotTracked(v) ==
    /\ v # NaN
    /\ \/ StrContains(StrLower(v), "não rastreado")
       \/ StrContains(StrLower(v), "não informado")

\* The summary dict; {} for an empty collection, None for an absent campaign.
get_summary_metrics(self) ==
    IF empty(self.df) THEN Result(self, NoExc, <<>>)
    ELSE
    LET df == self.df
        total_leads == Len(df.rows)
        Tracked(dim) ==
            IF dim \in df.columns
            THEN Len(SelectSeq(unique(Column(df, dim)), LAMBDA v : ~IsNotTracked(v)))
            ELSE 0
        rastreados ==
            Cardinality({i \in DOMAIN df.rows : ~ContainsNotTracked(df.rows[i].utm_campaign)})
        total_vendas ==
            Cardinality({i \in DOMAIN df.rows : notna(df.rows[i].data_venda)})
        metrics == get_campaign_metrics(self, "utm_campaign", 5)
        metrics_filtrados ==
            SelectSeq(metrics.val, LAMBDA m : ~StrContains(StrLower(m.name), NAO_RASTREADO))
        with_sales == SelectSeq(metrics_filtrados, LAMBDA m : m.vendas > 0)
        best == FirstMax(with_sales,
                         [i \in DOMAIN with_sales |-> taxa_conversao(with_sales[i])])
        worst == FirstMax(metrics_filtrados,
                          [i \in DOMAIN metrics_filtrados |->
                                taxa_desqualificacao(metrics_filtrados[i])])
        most_sales == FirstMax(metrics_filtrados,
                               [i \in DOMAIN metrics_filtrados |->
                                    Num(metrics_filtrados[i].vendas)])
    IN IF metrics.exc # NoExc THEN Result(metrics.self, metrics.exc, <<>>)
       ELSE Result(metrics.self, NoExc,
        [total_leads |-> total_leads,
         campanhas_ativas |-> Tracked("utm_campaign"),
         fontes_ativas |-> Tracked("utm_source"),
         midias_ativas |-> Tracked("utm_medium"),
         leads_rastreados |-> IF "utm_campaign" \in df.columns THEN rastreados ELSE 0,
         pct_rastreamento |->
            IF "utm_campaign" \in df.columns /\ total_leads > 0
            THEN Pct(rastreados, total_leads) ELSE Zero,
         total_vendas |-> IF "data_venda" \in df.columns THEN total_vendas ELSE 0,
         taxa_conversao_geral |->
            IF "data_venda" \in df.columns /\ total_leads > 0
            THEN Pct(total_vendas, total_leads) ELSE Zero,
         melhor_campanha |->
            IF with_sales # <<>>
            THEN Some([nome |-> best.name, taxa_conversao |-> taxa_conversao(best),
                       vendas |-> best.vendas])
            ELSE None,
         pior_campanha |->
            IF metrics_filtrados # <<>> /\ RatLess(Zero, taxa_desqualificacao(worst))
            THEN Some([nome |-> worst.name,
                       taxa_desqualificacao |-> taxa_desqualificacao(worst),
                       desqualificados |-> worst.desqualificados])
            ELSE None,
         campanha_mais_vendas |->
            IF metrics_filtrados # <<>> /\ most_sales.vendas > 0
            THEN Some([nome |-> most_sales.name, vendas |-> most_sales.vendas,
                       total_leads |-> most_sales.total_leads])
            ELSE None])

\* ------------------------------------------------------------------------
\* The state machine: a caller builds the two collections, constructs the
\* analyzer and calls its methods; or builds one CampaignMetrics and reads
\* its rates.
\* ------------------------------------------------------------------------

NoRet == [exc |-> NoExc, val |-> <<>>]

\* The CampaignMetrics a caller can build directly.
MetricsUniverse ==
    {CampaignMetrics("a", c[1], c[2], c[3], c[4], c[5], c[6]) :
        c \in [1..6 -> 0..MaxCount]}

InitCollections ==
    /\ df_leads = [columns |-> AllColumns, rows |-> <<>>]
    /\ df_leads_anterior = None
    /\ analyzer = None
    /\ call = [op |-> "none"]
    /\ ret = NoRet
    /\ limiter = None
    /\ answered = <<>>

InitCampaignMetrics ==
    /\ df_leads = [columns |-> AllColumns, rows |-> <<>>]
    /\ df_leads_anterior = None
    /\ analyzer = None
    /\ \E m \in MetricsUniverse : call = [op |-> "CampaignMetrics", m |-> m]
    /\ ret = NoRet
    /\ limiter = None
    /\ answered = <<>>

Init == InitCollections \/ InitCampaignMetrics

\* The caller appends k leads equal to row to the current collection.
AppendLeads(row, k) ==
    /\ call.op = "none"
    /\ IF df_leads.rows = <<>> THEN TRUE ELSE df_leads.rows[Len(df_leads.rows)] # row
    /\ Len(df_leads.rows) + k <= MaxLeads
    /\ df_leads' = [df_leads EXCEPT !.rows = @ \o Run(row, k)]
    /\ UNCHANGED <<df_leads_anterior, analyzer, call, ret, limiter, answered>>

\* The caller supplies a previous collection, still without rows.
EmptyAnterior ==
    /\ call.op = "none"
    /\ df_leads_anterior = None
    /\ df_leads_anterior' = Some([columns |-> AllColumns, rows |-> <<>>])
    /\ UNCHANGED <<df_leads, analyzer, call, ret, limiter, answered>>

\* The caller fills the previous collection with k leads equal to row.
AppendLeadsAnterior(row, k) ==
    /\ call.op = "none"
    /\ df_leads_anterior # None
    /\ Get(df_leads_anterior).rows = <<>>
    /\ df_leads_anterior' = Some([Get(df_leads_anterior) EXCEPT !.rows = Run(row, k)])
    /\ UNCHANGED <<df_leads, analyzer, call, ret, limiter, answered>>

\* MarketingAnalyzer(df_leads, df_leads_anterior, demo_completed_statuses)
Construct(statuses) ==
    /\ call.op = "none"
    /\ analyzer' = Some(NewAnalyzer(df_leads, df_leads_anterior, statuses))
    /\ call' = [op |-> "__init__"]
    /\ ret' = NoRet
    /\ UNCHANGED <<df_leads, df_leads_anterior, limiter, answered>>

\* get_campaign_metrics may follow any call; the other methods are called on
\* an analyzer that is fresh or has only served get_campaign_metrics.
GetCampaignMetrics(dimension, min_leads) ==
    /\ analyzer # None
    /\ LET r == get_campaign_metrics(Get(analyzer), dimension, min_leads)
       IN /\ analyzer' = Some(r.self)
          /\ ret' = [exc |-> r.exc, val |-> r.val]
    /\ call' = [op |-> "get_campaign_metrics", dimension |-> dimension,
                min_leads |-> min_leads]
    /\ UNCHANGED <<df_leads, df_leads_anterior, limiter, answered>>

ComparePeriods(dimension) ==
    /\ analyzer # None
    /\ call.op \in {"__init__", "get_campaign_metrics"}
    /\ LET r == compare_periods(Get(analyzer), dimension)
       IN /\ analyzer' = Some(r.self)
          /\ ret' = [exc |-> r.exc, val |-> r.val]
    /\ call' = [op |-> "compare_periods", dimension |-> dimension]
    /\ UNCHANGED <<df_leads, df_leads_anterior, limiter, answered>>

GenerateInsights(dimension, max_insights) ==
    /\ analyzer # None
    /\ call.op \in {"__init__", "get_campaign_metrics"}
    /\ \E order \in Orders(DOMAIN compare_periods(Get(analyzer), dimension).val) :
        LET r == generate_insights(Get(analyzer), dimension, max_insights, order)
        IN /\ analyzer' = Some(r.self)
           /\ ret' = [exc |-> r.exc, val |-> r.val]
    /\ call' = [op |-> "generate_insights", dimension |-> dimension,
                max_insights |-> max_insights]
    /\ UNCHANGED <<df_leads, df_leads_anterior, limiter, answered>>

GetSummaryMetrics ==
    /\ analyzer # None
    /\ call.op \in {"__init__", "get_campaign_metrics"}
    /\ LET r == get_summary_metrics(Get(analyzer))
       IN /\ analyzer' = Some(r.self)
          /\ ret' = [exc |-> r.exc, val |-> r.val]
    /\ call' = [op |-> "get_summary_metrics"]
    /\ UNCHANGED <<df_leads, df_leads_anterior, limiter, answered>>

\* Reading the six derived rates of a CampaignMetrics built directly.
ReadRates ==
    /\ call.op = "CampaignMetrics"
    /\ LET m == call.m
           rates == [taxa_agendamento |-> taxa_agendamento(m),
                     taxa_realizacao |-> taxa_realizacao(m),
                     taxa_desqualificacao |-> taxa_desqualificacao(m),
                     taxa_conversao |-> taxa_conversao(m),
                     taxa_noshow |-> taxa_noshow(m),
                     eficiencia_funil |-> eficiencia_funil(m)]
       IN ret' = [exc |-> IF \E f \in DOMAIN rates : rates[f] = ZeroDivisionError
                          THEN "ZeroDivisionError" ELSE NoExc,
                  val |-> rates]
    /\ call' = [op |-> "rates", m |-> call.m]
    /\ UNCHANGED <<df_leads, df_leads_anterior, analyzer, limiter, answered>>

MinLeadsArgs == {1, MIN_LEADS_ANALISE}
MaxInsightsArgs == {2, 10}

Next ==
    \/ \E row \in LeadRows, k \in RunLengths : AppendLeads(row, k)
    \/ EmptyAnterior
    \/ \E row \in LeadRowsAnterior, k \in RunLengthsAnterior : AppendLeadsAnterior(row, k)
    \/ \E statuses \in StatusConfigs : Construct(statuses)
    \/ \E d \in UTMDimension, n \in MinLeadsArgs : GetCampaignMetrics(d, n)
    \/ \E d \in UTMDimension : ComparePeriods(d)
    \/ \E d \in UTMDimension, n \in MaxInsightsArgs : GenerateInsights(d, n)
    \/ GetSummaryMetrics
    \/ ReadRates

Spec == Init /\ [][Next]_vars

\* ------------------------------------------------------------------------
\* core/metrics.py: calcular_demos_realizadas, calcular_noshows,
\* calcular_vendas.  Each returns [exc, val].
\* ------------------------------------------------------------------------

\* The window mask on a timestamp: applied only when both bounds are given.
InWindow(t, data_inicio, data_fim) ==
    IF data_inicio # None /\ data_fim # None
    THEN Get(data_inicio) <= t /\ t <= Get(data_fim)
    ELSE TRUE

calcular_demos_realizadas(df, data_inicio, data_fim) ==
    IF empty(df) \/ "data_demo" \notin df.columns \/ "status" \notin df.columns
    THEN [exc |-> NoExc, val |-> 0]
    ELSE IF "data_noshow" \notin df.columns
    THEN [exc |-> KeyError, val |-> 0]
    ELSE [exc |-> NoExc,
          val |-> Cardinality({i \in DOMAIN df.rows :
                    LET r == df.rows[i]
                    IN /\ notna(r.data_demo)
                       /\ InWindow(r.data_demo, data_inicio, data_fim)
                       /\ \/ r.status = "Desqualificados" /\ isna(r.data_noshow)
                          \/ r.status \in {"5 - Demonstração realizada",
                                           "6 - Lead quente", "Venda ganha"}})]

calcular_noshows(df, data_inicio, data_fim) ==
    IF empty(df) \/ "data_noshow" \notin df.columns
    THEN [exc |-> NoExc, val |-> 0]
    ELSE [exc |-> NoExc,
          val |-> Cardinality({i \in DOMAIN df.rows :
                    /\ notna(df.rows[i].data_noshow)
                    /\ InWindow(df.rows[i].data_noshow, data_inicio, data_fim)})]

calcular_vendas(df, data_inicio, data_fim) ==
    IF empty(df) \/ "data_venda" \notin df.columns
    THEN [exc |-> NoExc, val |-> 0]
    ELSE [exc |-> NoExc,
          val |-> Cardinality({i \in DOMAIN df.rows :
                    /\ notna(df.rows[i].data_venda)
                    /\ InWindow(df.rows[i].data_venda, data_inicio, data_fim)})]

\* ------------------------------------------------------------------------
\* A third state machine: a caller builds a collection, which may lack one
\* funnel field on every record, and either calls a calcular_* function on
\* it or constructs an analyzer over it and calls its methods.
\* ------------------------------------------------------------------------

FunnelFields == {"data_demo", "data_noshow", "data_venda", "status"}
ColumnSets == {AllColumns} \cup {AllColumns \ {f} : f \in FunnelFields}
LeadRowsMetrics == {SaleA, NoShowA, DesqDemoB}
Bounds == {None} \cup {Some(t) : t \in 1..MaxTime}

InitMetrics ==
    /\ \E columns \in ColumnSets : df_leads = [columns |-> columns, rows |-> <<>>]
    /\ df_leads_anterior = None
    /\ analyzer = None
    /\ call = [op |-> "none"]
    /\ ret = NoRet
    /\ limiter = None
    /\ answered = <<>>

CalcularDemosRealizadas(data_inicio, data_fim) ==
    /\ call.op = "none"
    /\ ret' = calcular_demos_realizadas(df_leads, data_inicio, data_fim)
    /\ call' = [op |-> "calcular_demos_realizadas", field |-> "data_demo",
                data_inicio |-> data_inicio, data_fim |-> data_fim]
    /\ UNCHANGED <<df_leads, df_leads_anterior, analyzer, limiter, answered>>

CalcularNoshows(data_inicio, data_fim) ==
    /\ call.op = "none"
    /\ ret' = calcular_noshows(df_leads, data_inicio, data_fim)
    /\ call' = [op |-> "calcular_noshows", field |-> "data_noshow",
                data_inicio |-> data_inicio, data_fim |-> data_fim]
    /\ UNCHANGED <<df_leads, df_leads_anterior, analyzer, limiter, answered>>

CalcularVendas(data_inicio, data_fim) ==
    /\ call.op = "none"
    /\ ret' = calcular_vendas(df_leads, data_inicio, data_fim)
    /\ call' = [op |-> "calcular_vendas", field |-> "data_venda",
                data_inicio |-> data_inicio, data_fim |-> data_fim]
    /\ UNCHANGED <<df_leads, df_leads_anterior, analyzer, limiter, answered>>

NextMetrics ==
    \/ \E row \in LeadRowsMetrics, k \in RunLengths : AppendLeads(row, k)
    \/ \E a \in Bounds, b \in Bounds : CalcularDemosRealizadas(a, b)
    \/ \E a \in Bounds, b \in Bounds : CalcularNoshows(a, b)
    \/ \E a \in Bounds, b \in Bounds : CalcularVendas(a, b)
    \/ \E statuses \in StatusConfigs : Construct(statuses)
    \/ \E d \in UTMDimension, n \in MinLeadsArgs : GetCampaignMetrics(d, n)
    \/ \E d \in UTMDimension, n \in MaxInsightsArgs : GenerateInsights(d, n)

SpecMetrics == InitMetrics /\ [][NextMetrics]_vars

\* ------------------------------------------------------------------------
\* A fourth state machine: the caller's current collection holds several
\* campaigns, each with enough leads to be analysed, and the previous
\* collection, when there is one, holds campaigns that sold.
\* ------------------------------------------------------------------------

\* max_insights: int = 10
max_insights_default == 10

MaxGroups == 4

GroupName(g) == "c" \o ToString(g)

\* a sale after a completed demo, in campaign g
SaleLead(g) ==
    Lead(GroupName(g), "google", "cpc", 1, NaT, 2, "5 - Demonstração realizada")
\* disqualified in the demo, in campaign g
DesqLead(g) == Lead(GroupName(g), "google", "cpc", 1, NaT, NaT, DESQUALIFICADO_STATUS)

\* <<disqualified, sold>> leads of a campaign: disqualification rates of
\* 0, 40, 60 and 100 percent
GroupKinds == {<<0, 5>>, <<2, 3>>, <<3, 2>>, <<6, 0>>}

GroupLeads(g, kind) == Run(DesqLead(g), kind[1]) \o Run(SaleLead(g), kind[2])

\* The campaigns of the previous collection, three sales each: with the best
\* conversion and three critical disqualifications they fill a default list
RegressedGroups == 1..(max_insights_default - 4)

InitGroupsOnly ==
    /\ \E n \in 1..MaxGroups : \E kinds \in [1..n -> GroupKinds] :
         df_leads = [columns |-> AllColumns,
                     rows |-> Concat([g \in 1..n |-> GroupLeads(g, kinds[g])])]
    /\ df_leads_anterior = None
    /\ analyzer = None
    /\ call = [op |-> "none"]
    /\ ret = NoRet
    /\ limiter = None
    /\ answered = <<>>

InitGroupsRegressed ==
    /\ \E kind \in {<<3, 2>>, <<6, 0>>} :
         df_leads = [columns |-> AllColumns,
                     rows |-> GroupLeads(1, kind) \o GroupLeads(2, <<6, 0>>)
                              \o GroupLeads(3, <<6, 0>>)]
    /\ df_leads_anterior =
          Some([columns |-> AllColumns,
                rows |-> Concat([g \in RegressedGroups |-> Run(SaleLead(g), 3)])])
    /\ analyzer = None
    /\ call = [op |-> "none"]
    /\ ret = NoRet
    /\ limiter = None
    /\ answered = <<>>

InitGroups == InitGroupsOnly \/ InitGroupsRegressed

NextGroups ==
    \/ Construct(DEMO_COMPLETED_STATUSES)
    \/ GenerateInsights("utm_campaign", max_insights_default)

SpecGroups == InitGroups /\ [][NextGroups]_vars

\* ------------------------------------------------------------------------
\* A fifth state machine: the caller supplies a current and a previous
\* collection of sold and disqualified leads, the previous one with or
\* without the sales of a second medium, and asks for insights.
\* ------------------------------------------------------------------------

MaxRun == 5

\* The sales of a second medium in the previous collection: none or three
SecondMediumRuns == {0, 3}

MaxInsightsRegressionArgs == {0, 2, max_insights_default}

InitRegression ==
    /\ \E i, j \in 0..MaxRun :
         df_leads = [columns |-> AllColumns,
                     rows |-> Run(SaleA, i) \o Run(DesqDemoB, j)]
    /\ \E k, l \in 0..MaxRun, m \in SecondMediumRuns :
         df_leads_anterior =
            Some([columns |-> AllColumns,
                  rows |-> Run(SaleA, k) \o Run(DesqDemoB, l)
                           \o Run(CompletedNoDemoA, m)])
    /\ analyzer = None
    /\ call = [op |-> "none"]
    /\ ret = NoRet
    /\ limiter = None
    /\ answered = <<>>

NextRegression ==
    \/ Construct(DEMO_COMPLETED_STATUSES)
    \/ \E d \in UTMDimension, n \in MaxInsightsRegressionArgs : GenerateInsights(d, n)

SpecRegression == InitRegression /\ [][NextRegression]_vars

\* ------------------------------------------------------------------------
\* A sixth state machine: the caller builds the analyzer over a current and
\* a previous collection and calls its three methods in any order, any
\* number of times.
\* ------------------------------------------------------------------------

LeadRowsReentrant == {SaleA, UntrackedNew, NoShowA}

InitReentrant ==
    /\ \E row \in LeadRowsReentrant, k \in RunLengths \cup {0} :
         df_leads = [columns |-> AllColumns, rows |-> Run(row, k)]
    /\ \/ df_leads_anterior = None
       \/ \E row \in LeadRowsReentrant, k \in RunLengthsAnterior \cup {0} :
            df_leads_anterior = Some([columns |-> AllColumns, rows |-> Run(row, k)])
    /\ analyzer = None
    /\ call = [op |-> "none"]
    /\ ret = NoRet
    /\ limiter = None
    /\ answered = <<>>

\* compare_periods after any call
ComparePeriodsAnyTime(dimension) ==
    /\ analyzer # None
    /\ LET r == compare_periods(Get(analyzer), dimension)
       IN /\ analyzer' = Some(r.self)
          /\ ret' = [exc |-> r.exc, val |-> r.val]
    /\ call' = [op |-> "compare_periods", dimension |-> dimension]
    /\ UNCHANGED <<df_leads, df_leads_anterior, limiter, answered>>

\* generate_insights after any call
GenerateInsightsAnyTime(dimension, max_insights) ==
    /\ analyzer # None
    /\ \E order \in Orders(DOMAIN compare_periods(Get(analyzer), dimension).val) :
        LET r == generate_insights(Get(analyzer), dimension, max_insights, order)
        IN /\ analyzer' = Some(r.self)
           /\ ret' = [exc |-> r.exc, val |-> r.val]
    /\ call' = [op |-> "generate_insights", dimension |-> dimension,
                max_insights |-> max_insights]
    /\ UNCHANGED <<df_leads, df_leads_anterior, limiter, answered>>

NextReentrant ==
    \/ \E statuses \in StatusConfigs : Construct(statuses)
    \/ \E d \in UTMDimension, n \in MinLeadsArgs : GetCampaignMetrics(d, n)
    \/ \E d \in UTMDimension : ComparePeriodsAnyTime(d)
    \/ \E d \in UTMDimension, n \in MaxInsightsArgs : GenerateInsightsAnyTime(d, n)

SpecReentrant == InitReentrant /\ [][NextReentrant]_vars

\* ------------------------------------------------------------------------
\* core/security.py: RateLimitConfig, RateLimiter, check_rate_limit.
\* Timestamps are whole seconds; a call happens at one instant, which both
\* of its clock reads return.
\* ------------------------------------------------------------------------

RateLimitConfig(requests_per_minute, requests_per_hour, burst_limit) ==
    [requests_per_minute |-> requests_per_minute,
     requests_per_hour |-> requests_per_hour,
     burst_limit |-> burst_limit]

\* The keys the callers of check_rate_limit use
Keys == {"gemini_insights", "gemini_chat"}

\* __init__: self._requests is a defaultdict(list), an empty list for a key
\* never used
RateLimiter(config) == [config |-> config, _requests |-> [key \in Keys |-> <<>>]]

\* self._requests[key] = [ts for ts in self._requests[key] if ts > cutoff],
\* time the value of time.time()
_cleanup_old_requests(self, key, window_seconds, time) ==
    [self EXCEPT !._requests[key] =
        SelectSeq(@, LAMBDA ts : ts > time - window_seconds)]

\* is_allowed without the burst check
is_allowed_without_burst(self, key, now) ==
    LET cleaned == _cleanup_old_requests(self, key, 3600, now)
        requests == cleaned._requests[key]
        recent_minute == SelectSeq(requests, LAMBDA ts : ts > now - 60)
    IN IF Len(recent_minute) >= self.config.requests_per_minute
       THEN [self |-> cleaned, val |-> FALSE]
       ELSE IF Len(requests) >= self.config.requests_per_hour
       THEN [self |-> cleaned, val |-> FALSE]
       ELSE [self |-> [cleaned EXCEPT !._requests[key] = Append(@, now)],
             val |-> TRUE]

\* RateLimiter.is_allowed at time now: [self, val]
is_allowed(self, key, now) ==
    LET cleaned == _cleanup_old_requests(self, key, 3600, now)
        requests == cleaned._requests[key]
        recent_second == SelectSeq(requests, LAMBDA ts : ts > now - 1)
        recent_minute == SelectSeq(requests, LAMBDA ts : ts > now - 60)
    IN IF Len(recent_second) >= self.config.burst_limit
       THEN [self |-> cleaned, val |-> FALSE]
       ELSE IF Len(recent_minute) >= self.config.requests_per_minute
       THEN [self |-> cleaned, val |-> FALSE]
       ELSE IF Len(requests) >= self.config.requests_per_hour
       THEN [self |-> cleaned, val |-> FALSE]
       ELSE [self |-> [cleaned EXCEPT !._requests[key] = Append(@, now)],
             val |-> TRUE]

\* check_rate_limit on the module's limiter: return _rate_limiter.is_allowed(key)
check_rate_limit(self, key, now) == is_allowed(self, key, now)

\* ------------------------------------------------------------------------
\* A seventh state machine: a limiter is built with a configuration and
\* is_allowed and check_rate_limit are called on it at non-decreasing times.
\* ------------------------------------------------------------------------

MaxCalls == 3

\* <<requests_per_minute, requests_per_hour, burst_limit>>
RateLimitConfigs == {RateLimitConfig(2, 2, 1), RateLimitConfig(1, 2, 2)}

\* The seconds between two calls: the same instant, the edge of the burst
\* window, steps that add up to the edge of the minute and to the last second
\* of the hour, and the edge of the hour
Steps == {0, 1, 59, 3540, 3600}

Clock == IF answered = <<>> THEN 0 ELSE answered[Len(answered)].now

InitRateLimiter ==
    /\ df_leads = [columns |-> AllColumns, rows |-> <<>>]
    /\ df_leads_anterior = None
    /\ analyzer = None
    /\ call = [op |-> "RateLimiter"]
    /\ ret = NoRet
    /\ \E config \in RateLimitConfigs : limiter = Some(RateLimiter(config))
    /\ answered = <<>>

IsAllowed(key, step) ==
    /\ limiter # None
    /\ Len(answered) < MaxCalls
    /\ LET now == Clock + step
           r == is_allowed(Get(limiter), key, now)
       IN /\ limiter' = Some(r.self)
          /\ ret' = [exc |-> NoExc, val |-> r.val]
          /\ call' = [op |-> "is_allowed", key |-> key, now |-> now]
          /\ answered' = Append(answered, [op |-> "is_allowed", key |-> key,
                                           now |-> now, val |-> r.val])
    /\ UNCHANGED <<df_leads, df_leads_anterior, analyzer>>

CheckRateLimit(key, step) ==
    /\ limiter # None
    /\ Len(answered) < MaxCalls
    /\ LET now == Clock + step
           r == check_rate_limit(Get(limiter), key, now)
       IN /\ limiter' = Some(r.self)
          /\ ret' = [exc |-> NoExc, val |-> r.val]
          /\ call' = [op |-> "check_rate_limit", key |-> key, now |-> now]
          /\ answered' = Append(answered, [op |-> "check_rate_limit", key |-> key,
                                           now |-> now, val |-> r.val])
    /\ UNCHANGED <<df_leads, df_leads_anterior, analyzer>>

NextRateLimiter ==
    \/ \E key \in Keys, step \in Steps : IsAllowed(key, step)
    \/ \E key \in Keys, step \in Steps : CheckRateLimit(key, step)

SpecRateLimiter == InitRateLimiter /\ [][NextRateLimiter]_vars

\* ------------------------------------------------------------------------
\* A second state machine: a caller builds one PeriodComparison and reads
\* its derived properties.  On integer values the float arithmetic of
\* percentage_change classifies as the exact quotient does.
\* ------------------------------------------------------------------------

ComparisonUniverse ==
    {PeriodComparison("Vendas", Num(c), Num(p)) :
        c \in -MaxValue..MaxValue, p \in -MaxValue..MaxValue}

InitPeriodComparison ==
    /\ df_leads = [columns |-> AllColumns, rows |-> <<>>]
    /\ df_leads_anterior = None
    /\ analyzer = None
    /\ \E c \in ComparisonUniverse : call = [op |-> "PeriodComparison", c |-> c]
    /\ ret = NoRet
    /\ limiter = None
    /\ answered = <<>>

ReadAbsoluteChange ==
    /\ call.op = "PeriodComparison"
    /\ ret' = [exc |-> NoExc, val |-> absolute_change(call.c)]
    /\ call' = [op |-> "absolute_change", c |-> call.c]
    /\ UNCHANGED <<df_leads, df_leads_anterior, analyzer, limiter, answered>>

ReadPercentageChange ==
    /\ call.op = "PeriodComparison"
    /\ ret' = [exc |-> NoExc, val |-> percentage_change(call.c)]
    /\ call' = [op |-> "percentage_change", c |-> call.c]
    /\ UNCHANGED <<df_leads, df_leads_anterior, analyzer, limiter, answered>>

ReadTrend ==
    /\ call.op = "PeriodComparison"
    /\ ret' = [exc |-> NoExc, val |-> trend(call.c)]
    /\ call' = [op |-> "trend", c |-> call.c]
    /\ UNCHANGED <<df_leads, df_leads_anterior, analyzer, limiter, answered>>

NextPeriodComparison == ReadAbsoluteChange \/ ReadPercentageChange \/ ReadTrend

SpecPeriodComparison == InitPeriodComparison /\ [][NextPeriodComparison]_vars

\* ------------------------------------------------------------------------
\* Properties
\* ------------------------------------------------------------------------

\* The analyzer, once constructed, and the views its aggregations read.
Self == Get(analyzer)
HasPrevious == analyzer # None /\ Self.df_anterior # None
CurrentView == Self.df
PreviousView == AnalyzerAnterior(Self).df

\* The leads of a view that carry value v in the dimension.
LeadsOf(view, dimension, v) ==
    {i \in DOMAIN view.rows : view.rows[i][dimension] = v}
GroupsOf(view, dimension) ==
    {view.rows[i][dimension] : i \in DOMAIN view.rows}
SalesOf(view, dimension, v) ==
    Cardinality({i \in LeadsOf(view, dimension, v) : view.rows[i].data_venda # NaT})

Returned(op) == analyzer # None /\ call.op = op

\* C1: every CampaignMetrics returned by get_campaign_metrics has
\* desqualificados <= demos_realizadas, for every collection, dimension and
\* min_leads.
C1_DesqualificadosWithinDemos ==
    Returned("get_campaign_metrics") =>
        \A i \in DOMAIN ret.val :
            ret.val[i].desqualificados <= ret.val[i].demos_realizadas

\* The derivation of "demo completed" the data model states, for one lead.
DemoCompletedAsSpecified(lead, statuses) ==
    /\ lead.data_demo # NaT
    /\ \/ lead.status = "Desqualificados" /\ lead.data_noshow = NaT
       \/ lead.status \in statuses

\* C2: a lead is counted in its group's demos_realizadas iff data_demo is
\* present and either it is disqualified without a no-show or its status is
\* one of demo_completed_statuses, whatever that configuration is.
C2_DemoCompletedDerivation ==
    Returned("get_campaign_metrics") =>
        \A i \in DOMAIN ret.val :
            ret.val[i].demos_realizadas =
                Cardinality({j \in LeadsOf(CurrentView, call.dimension, ret.val[i].name) :
                    DemoCompletedAsSpecified(CurrentView.rows[j],
                                             Self.demo_completed_statuses)})

\* C3: each derived rate of a CampaignMetrics is 0 when its denominator
\* count is 0, whatever the other counts, and reading the rates raises no
\* division fault.
C3_RatesZeroOnZeroDenominator ==
    call.op = "rates" =>
        /\ ret.exc = NoExc
        /\ call.m.total_leads = 0 =>
            ret.val.taxa_agendamento = Zero /\ ret.val.eficiencia_funil = Zero
        /\ call.m.demos_agendadas = 0 =>
            ret.val.taxa_realizacao = Zero /\ ret.val.taxa_noshow = Zero
        /\ call.m.demos_realizadas = 0 =>
            ret.val.taxa_desqualificacao = Zero /\ ret.val.taxa_conversao = Zero

\* The rates were read of a CampaignMetrics whose three denominators are 0 and
\* whose other counts are not.
C3_Witness ==
    /\ call.op = "rates"
    /\ call.m.total_leads = 0 /\ call.m.demos_agendadas = 0
    /\ call.m.demos_realizadas = 0
    /\ call.m.vendas > 0 /\ call.m.desqualificados > 0 /\ call.m.noshows > 0

\* The groups with leads in the previous period and none in the current one.
Vanished(dimension) ==
    GroupsOf(PreviousView, dimension) \ GroupsOf(CurrentView, dimension)

\* C4: a group with leads in the previous period and none in the current one
\* (also when the current collection is empty) still has an entry in
\* compare_periods: every current_value is 0, and its 'Vendas' comparison
\* carries the previous sales count and, when that count is > 0,
\* percentage_change = -100 and trend = 'down'.
C4_VanishedGroupCompared ==
    (Returned("compare_periods") /\ HasPrevious) =>
        /\ ret.exc = NoExc
        /\ \A g \in Vanished(call.dimension) :
            /\ g \in DOMAIN ret.val
            /\ \A k \in DOMAIN ret.val[g] : ret.val[g][k].current_value = Zero
            /\ \E k \in DOMAIN ret.val[g] : ret.val[g][k].metric_name = "Vendas"
            /\ \A k \in DOMAIN ret.val[g] :
                ret.val[g][k].metric_name = "Vendas" =>
                    LET sales == SalesOf(PreviousView, call.dimension, g)
                    IN /\ ret.val[g][k].previous_value = Num(sales)
                       /\ sales > 0 =>
                            /\ percentage_change(ret.val[g][k]) = Num(-100)
                            /\ trend(ret.val[g][k]) = "down"

\* C4 as stated, its trend = 'down' read for every vanished group, also one
\* with no sales in the previous period.
C4_VanishedGroupAlwaysDown ==
    (Returned("compare_periods") /\ HasPrevious) =>
        \A g \in Vanished(call.dimension) :
            /\ g \in DOMAIN ret.val
            /\ \A k \in DOMAIN ret.val[g] :
                /\ ret.val[g][k].current_value = Zero
                /\ ret.val[g][k].metric_name = "Vendas" =>
                    LET sales == SalesOf(PreviousView, call.dimension, g)
                    IN /\ ret.val[g][k].previous_value = Num(sales)
                       /\ sales > 0 => percentage_change(ret.val[g][k]) = Num(-100)
                       /\ trend(ret.val[g][k]) = "down"

\* compare_periods returned over an empty current collection and a previous
\* one holding a group with sales.
C4_Witness ==
    /\ Returned("compare_periods") /\ HasPrevious
    /\ df_leads.rows = <<>>
    /\ \E g \in Vanished(call.dimension) :
        SalesOf(PreviousView, call.dimension, g) > 0

\* C5: with a previous period supplied, a group that had at least 3 sales in
\* it and has no leads in the current period gets a CRITICAL 'Queda em Vendas'
\* insight from generate_insights, whatever the current collection is.
C5_VanishedGroupSalesDrop ==
    (Returned("generate_insights") /\ HasPrevious) =>
        \A g \in Vanished(call.dimension) :
            SalesOf(PreviousView, call.dimension, g) >= 3 =>
                \E k \in DOMAIN ret.val :
                    /\ ret.val[k].type = CRITICAL
                    /\ ret.val[k].title = "Queda em Vendas"
                    /\ ret.val[k].campaign = g

\* C6: when a comparison is made, compare_periods returns one entry for every
\* group of the current or the previous aggregation and no other, each the
\* six comparisons Total Leads, Demos Realizadas, % Desqualificação,
\* % Conversão, % No-show, Vendas in this order.
C6_UnionOfGroupsSixMetrics ==
    (Returned("compare_periods") /\ HasPrevious) =>
        /\ ret.exc = NoExc
        /\ DOMAIN ret.val =
            GroupsOf(CurrentView, call.dimension) \cup GroupsOf(PreviousView, call.dimension)
        /\ \A g \in DOMAIN ret.val :
            [k \in DOMAIN ret.val[g] |-> ret.val[g][k].metric_name] =
                <<"Total Leads", "Demos Realizadas", "% Desqualificação",
                  "% Conversão", "% No-show", "Vendas">>

\* compare_periods returned with a group only in the current period and a
\* group only in the previous one.
C6_Witness ==
    /\ Returned("compare_periods") /\ HasPrevious
    /\ Vanished(call.dimension) # {}
    /\ GroupsOf(CurrentView, call.dimension) \ GroupsOf(PreviousView, call.dimension) # {}

\* No group of the current collection has 5 leads.
NoGroupReachesMinimum(dimension) ==
    \A v \in GroupsOf(CurrentView, dimension) :
        Cardinality(LeadsOf(CurrentView, dimension, v)) < 5

\* C7: for an empty collection, and for one in which no group reaches 5
\* leads, get_campaign_metrics with that minimum returns no groups and
\* generate_insights returns exactly one insight, the INFO 'Dados
\* Insuficientes', without raising.
C7_InsufficientData ==
    /\ (Returned("generate_insights") /\ NoGroupReachesMinimum(call.dimension)) =>
        /\ ret.exc = NoExc
        /\ Len(ret.val) = 1
        /\ ret.val[1].type = INFO
        /\ ret.val[1].title = "Dados Insuficientes"
    /\ (/\ Returned("get_campaign_metrics")
        /\ call.min_leads = 5
        /\ NoGroupReachesMinimum(call.dimension)) =>
        ret.exc = NoExc /\ ret.val = <<>>

\* generate_insights returned over six leads in groups of fewer than 5, with a
\* previous period supplied.
C7_Witness ==
    /\ Returned("generate_insights") /\ HasPrevious
    /\ Len(df_leads.rows) = 6
    /\ NoGroupReachesMinimum(call.dimension)

\* The leads of the caller's collection without a value for the dimension.
Untracked(dimension) ==
    {i \in DOMAIN df_leads.rows : df_leads.rows[i][dimension] \in {NaN, ""}}

LexOrder ==
    <<"", "(não rastreado)", "Não Informado", "a", "b", "cpc", "google",
      "x (não rastreado)">>
LexRank(name) == CHOOSE k \in DOMAIN LexOrder : LexOrder[k] = name

C10_SecondCallSameResult ==
    [][(call.op = "get_campaign_metrics" /\ call' = call) => ret' = ret]_vars

\* get_campaign_metrics returned two groups or more.
C10_Witness ==
    /\ Returned("get_campaign_metrics")
    /\ Len(ret.val) >= 2

\* C11: get_campaign_metrics(dimension, min_leads) returns exactly the groups
\* of at least min_leads leads, each once, none smaller and none missing; the
\* total_leads of get_summary_metrics counts every lead of the collection,
\* those of the excluded groups too.
C11_MinLeadsFilterKeepsTotals ==
    /\ Returned("get_campaign_metrics") =>
        LET kept == {v \in GroupsOf(CurrentView, call.dimension) :
                        Cardinality(LeadsOf(CurrentView, call.dimension, v)) >= call.min_leads}
        IN /\ ret.exc = NoExc
           /\ {ret.val[i].name : i \in DOMAIN ret.val} = kept
           /\ Len(ret.val) = Cardinality(kept)
    /\ (Returned("get_summary_metrics") /\ df_leads.rows # <<>>) =>
        ret.exc = NoExc /\ ret.val.total_leads = Len(df_leads.rows)

\* get_summary_metrics returned over a collection with a campaign of 5 leads
\* and a campaign of fewer.
C11_Witness ==
    /\ Returned("get_summary_metrics")
    /\ \E v \in GroupsOf(CurrentView, "utm_campaign") :
            Cardinality(LeadsOf(CurrentView, "utm_campaign", v)) < 5
    /\ \E v \in GroupsOf(CurrentView, "utm_campaign") :
            Cardinality(LeadsOf(CurrentView, "utm_campaign", v)) >= 5
    /\ ret.val.total_leads = Len(df_leads.rows)

\* The insights the nine rules emit, in rule order, for the state's analyzer
\* and dimension; order is the iteration order of the compared campaigns.
EmittedInsights(order) ==
    LET ms == MetricsList(Self, call.dimension, MIN_LEADS_ANALISE).val
    IN RuleVolume(ms) \o RuleConversion(ms) \o RuleDesqualificacao(ms)
       \o RuleNoShow(ms) \o RuleOportunidade(ms) \o RuleRastreamento(ms)
       \o (IF HasPrevious
           THEN RulePeriodos(compare_periods(Self, call.dimension).val, order)
           ELSE <<>>)
       \o RuleEficiencia(ms) \o RuleSemConversao(ms)

\* The place of e[i] when e is ordered by priority, earlier emission first
\* among equal priorities.
PriorityRank(e, i) ==
    1 + Cardinality({j \in DOMAIN e :
            \/ e[j].priority < e[i].priority
            \/ e[j].priority = e[i].priority /\ j < i})

\* C12: when a group qualifies, generate_insights returns the first
\* max_insights of the emitted insights ordered by non-decreasing priority,
\* insights of equal priority in the order the rules emitted them.
C12_TopByPriorityStable ==
    (Returned("generate_insights") /\ ~NoGroupReachesMinimum(call.dimension)) =>
        /\ ret.exc = NoExc
        /\ \E order \in Orders(DOMAIN compare_periods(Self, call.dimension).val) :
            LET e == EmittedInsights(order)
            IN /\ Len(ret.val) = Min(call.max_insights, Len(e))
               /\ \A i \in DOMAIN e :
                    PriorityRank(e, i) <= call.max_insights =>
                        ret.val[PriorityRank(e, i)] = e[i]

\* generate_insights returned 2 insights out of more, the first of them not
\* the first emitted.
C12_Witness ==
    /\ Returned("generate_insights") /\ ~NoGroupReachesMinimum(call.dimension)
    /\ call.max_insights = 2
    /\ \E order \in Orders(DOMAIN compare_periods(Self, call.dimension).val) :
        LET e == EmittedInsights(order)
        IN /\ Len(e) > 2
           /\ e[1].priority > ret.val[1].priority
           /\ ret.val[1].priority = ret.val[2].priority

\* C13: percentage_change is (current_value - previous_value) /
\* previous_value * 100 when previous_value is not 0, 0 when both values are
\* 0, and 100 when previous_value is 0 and current_value > 0.
C13_PercentageChange ==
    call.op = "percentage_change" =>
        LET cur == call.c.current_value.n
            prev == call.c.previous_value.n
        IN /\ ret.exc = NoExc
           /\ ret.val.d > 0
           /\ prev # 0 => ret.val.n * prev = (cur - prev) * 100 * ret.val.d
           /\ (prev = 0 /\ cur = 0) => ret.val = Num(0)
           /\ (prev = 0 /\ cur > 0) => ret.val = Num(100)

\* percentage_change was read with previous_value 0 and current_value > 0.
C13_Witness ==
    /\ call.op = "percentage_change"
    /\ call.c.previous_value = Zero
    /\ call.c.current_value.n > 0
    /\ ret.val = Num(100)

\* C14: trend is one of 'up', 'down', 'stable': 'up' iff percentage_change
\* > 5, 'down' iff percentage_change < -5, 'stable' for every
\* percentage_change in the closed band [-5, 5].
C14_TrendDeadband ==
    call.op = "trend" =>
        LET pc == percentage_change(call.c)
        IN /\ ret.val \in {"up", "down", "stable"}
           /\ ret.val = "up" <=> pc.n > 5 * pc.d
           /\ ret.val = "down" <=> pc.n < -5 * pc.d
           /\ (pc.n >= -5 * pc.d /\ pc.n <= 5 * pc.d) => ret.val = "stable"

\* trend was read 'stable' at a percentage_change of exactly 5.
C14_Witness ==
    /\ call.op = "trend"
    /\ percentage_change(call.c) = Num(5)
    /\ ret.val = "stable"

\* A lead counted as a completed demo by the analyzer's configuration.
CountedCompleted(lead) ==
    /\ Self.demo_completed_statuses # {}
    /\ \/ lead.status \in Self.demo_completed_statuses
       \/ /\ lead.status = "Desqualificados"
          /\ lead.data_demo # NaT
          /\ lead.data_noshow = NaT

\* Funnel containment of the current collection.
FunnelContained ==
    \A i \in DOMAIN CurrentView.rows :
        LET lead == CurrentView.rows[i]
        IN /\ (lead.data_noshow # NaT \/ CountedCompleted(lead)) => lead.data_demo # NaT
           /\ (lead.status = "Desqualificados" \/ lead.data_venda # NaT) =>
                CountedCompleted(lead)

\* The derived rates of one CampaignMetrics.
RatesOf(m) ==
    {taxa_agendamento(m), taxa_realizacao(m), taxa_desqualificacao(m),
     taxa_conversao(m), taxa_noshow(m), taxa_aproveitamento(m), eficiencia_funil(m)}

\* C15: for a collection that respects funnel containment, every derived
\* rate of every CampaignMetrics returned by get_campaign_metrics is in
\* [0, 100].
C15_RatesWithinBounds ==
    (Returned("get_campaign_metrics") /\ FunnelContained) =>
        \A i \in DOMAIN ret.val : \A r \in RatesOf(ret.val[i]) :
            r.d > 0 /\ 0 <= r.n /\ r.n <= 100 * r.d

\* get_campaign_metrics returned, over a contained collection, a group with
\* sales and disqualified leads among its completed demos.
C15_Witness ==
    /\ Returned("get_campaign_metrics") /\ FunnelContained
    /\ \E i \in DOMAIN ret.val :
        /\ ret.val[i].vendas > 0
        /\ ret.val[i].desqualificados > ret.val[i].vendas
        /\ ret.val[i].demos_realizadas = ret.val[i].total_leads

\* The caller supplied no previous collection, or one without leads.
PreviousAbsentOrEmpty ==
    df_leads_anterior = None \/ Get(df_leads_anterior).rows = <<>>

\* C16: with the previous collection absent or empty, compare_periods returns
\* an empty mapping and generate_insights returns the list it returns for the
\* same current collection with no previous one, without a 'Queda em Vendas'
\* or 'Aumento em Desqualificação' insight, and neither raises.
C16_NoPreviousNoComparison ==
    /\ (Returned("compare_periods") /\ PreviousAbsentOrEmpty) =>
        ret.exc = NoExc /\ DOMAIN ret.val = {}
    /\ (Returned("generate_insights") /\ PreviousAbsentOrEmpty) =>
        /\ ret.exc = NoExc
        /\ ret.val =
            generate_insights(NewAnalyzer(df_leads, None, Self.demo_completed_statuses),
                              call.dimension, call.max_insights, <<>>).val
        /\ \A k \in DOMAIN ret.val :
            ret.val[k].title \notin {"Queda em Vendas", "Aumento em Desqualificação"}

\* generate_insights returned several insights for a caller who supplied an
\* empty previous collection.
C16_Witness ==
    /\ Returned("generate_insights")
    /\ df_leads_anterior # None
    /\ PreviousAbsentOrEmpty
    /\ Len(ret.val) >= 2

\* One funnel field is absent from every record of a non-empty collection.
OneFunnelFieldAbsent ==
    /\ df_leads.rows # <<>>
    /\ \E f \in FunnelFields : df_leads.columns = AllColumns \ {f}

\* C17: over a non-empty collection in which one funnel field is absent from
\* every record, get_campaign_metrics, generate_insights and
\* calcular_demos_realizadas return a result and never raise.
C17_MissingFieldNeverRaises ==
    (/\ OneFunnelFieldAbsent
     /\ call.op \in {"get_campaign_metrics", "generate_insights",
                     "calcular_demos_realizadas"}) =>
        ret.exc = NoExc

\* The leads the window [start, end) on the function's field counts; for
\* calcular_demos_realizadas, among the leads that completed a demo.
CountedHalfOpen ==
    {i \in DOMAIN df_leads.rows :
        LET r == df_leads.rows[i]
            t == r[call.field]
        IN /\ t # NaT
           /\ Get(call.data_inicio) <= t /\ t < Get(call.data_fim)
           /\ call.op = "calcular_demos_realizadas" =>
                \/ r.status = "Desqualificados" /\ r.data_noshow = NaT
                \/ r.status \in {"5 - Demonstração realizada", "6 - Lead quente",
                                 "Venda ganha"}}

\* C18: with both bounds given, calcular_vendas, calcular_noshows and
\* calcular_demos_realizadas count exactly the leads whose timestamp field is
\* non-null and in the half-open window start <= timestamp < end; a lead
\* whose timestamp equals the end bound is not counted.
C18_HalfOpenWindow ==
    (/\ call.op \in {"calcular_vendas", "calcular_noshows", "calcular_demos_realizadas"}
     /\ df_leads.columns = AllColumns
     /\ call.data_inicio # None /\ call.data_fim # None) =>
        ret.exc = NoExc /\ ret.val = Cardinality(CountedHalfOpen)

\* C19: after construction, in the current and the previous view every
\* attribution value is non-null and non-empty, and a lead whose value was
\* null, empty or whitespace-only carries the sentinel '(não rastreado)'.
C19_AttributionNeverEmpty ==
    analyzer # None =>
        \A dimension \in {"utm_campaign", "utm_source", "utm_medium"} :
            /\ \A i \in DOMAIN Self.df.rows :
                /\ Self.df.rows[i][dimension] \notin {NaN, ""}
                /\ df_leads.rows[i][dimension] \in {NaN, "", " "} =>
                        Self.df.rows[i][dimension] = "(não rastreado)"
            /\ Self.df_anterior # None =>
                \A i \in DOMAIN Get(Self.df_anterior).rows :
                    /\ Get(Self.df_anterior).rows[i][dimension] \notin {NaN, ""}
                    /\ Get(df_leads_anterior).rows[i][dimension] \in {NaN, "", " "} =>
                            Get(Self.df_anterior).rows[i][dimension] = "(não rastreado)"

\* C20: with min_leads <= 1, get_campaign_metrics partitions the collection:
\* the groups have pairwise distinct names, every lead is in exactly one
\* group, each total_leads is the number of leads carrying the group's value,
\* and the total_leads sum to the size of the collection.
C20_GroupsPartitionLeads ==
    (Returned("get_campaign_metrics") /\ call.min_leads <= 1) =>
        /\ ret.exc = NoExc
        /\ \A j, k \in DOMAIN ret.val : ret.val[j].name = ret.val[k].name => j = k
        /\ \A i \in DOMAIN CurrentView.rows :
            Cardinality({k \in DOMAIN ret.val :
                ret.val[k].name = CurrentView.rows[i][call.dimension]}) = 1
        /\ \A k \in DOMAIN ret.val :
            ret.val[k].total_leads =
                Cardinality(LeadsOf(CurrentView, call.dimension, ret.val[k].name))
        /\ SumTotalLeads(ret.val) = Len(df_leads.rows)

\* get_campaign_metrics returned two groups, one of them the untracked group,
\* for min_leads = 1.
C20_Witness ==
    /\ Returned("get_campaign_metrics") /\ call.min_leads <= 1
    /\ Len(ret.val) = 2
    /\ \E k \in DOMAIN ret.val : ret.val[k].name = "(não rastreado)"
    /\ SumTotalLeads(ret.val) = 8

\* The groups of the current view with at least 5 leads, and the largest of
\* them.
Qualifying(dimension) ==
    {v \in GroupsOf(CurrentView, dimension) :
        Cardinality(LeadsOf(CurrentView, dimension, v)) >= 5}
Largest(dimension) ==
    {v \in Qualifying(dimension) :
        \A w \in Qualifying(dimension) :
            Cardinality(LeadsOf(CurrentView, dimension, w))
                <= Cardinality(LeadsOf(CurrentView, dimension, v))}
VolumeReported ==
    \E k \in DOMAIN ret.val :
        /\ ret.val[k].type = POSITIVE
        /\ ret.val[k].title = "Maior Volume de Leads"
        /\ ret.val[k].campaign \in Largest(call.dimension)

\* C21 as stated: whenever a group has 5 or more leads, the list returned by
\* generate_insights with max_insights = 10 contains a POSITIVE 'Maior Volume
\* de Leads' insight for a group of maximal total_leads.
C21_VolumeAlwaysReturned ==
    (/\ Returned("generate_insights")
     /\ call.max_insights = 10
     /\ Qualifying(call.dimension) # {}) =>
        VolumeReported

\* C21: whenever a group has 5 or more leads, the list returned by
\* generate_insights with max_insights = 10 contains a POSITIVE 'Maior Volume
\* de Leads' insight for a group of maximal total_leads, unless the list is
\* ten insights of priority 1.
C21_VolumeReturnedUnlessCrowdedOut ==
    (/\ Returned("generate_insights")
     /\ call.max_insights = 10
     /\ Qualifying(call.dimension) # {}) =>
        /\ ret.exc = NoExc
        /\ \/ VolumeReported
           \/ /\ Len(ret.val) = 10
              /\ \A k \in DOMAIN ret.val : ret.val[k].priority = 1

\* generate_insights returned the volume insight for the larger of two
\* qualifying groups of different sizes.
C21_Witness ==
    /\ Returned("generate_insights")
    /\ call.max_insights = 10
    /\ Cardinality(Qualifying(call.dimension)) >= 2
    /\ Largest(call.dimension) # Qualifying(call.dimension)
    /\ VolumeReported

\* The metrics of the groups generate_insights analyses, and the positions of
\* the returned list that hold an insight of the given title.
QualifyingMetrics == get_campaign_metrics(Self, call.dimension, 5).val
Titled(title) == {k \in DOMAIN ret.val : ret.val[k].title = title}
HighDesqualificacao ==
    {j \in DOMAIN QualifyingMetrics :
        RatLeq(Num(40), taxa_desqualificacao(QualifyingMetrics[j]))}

\* C22: in a list that was not truncated, the 'Alta Taxa de Desqualificação'
\* insights are for distinct qualifying groups with taxa_desqualificacao >= 40,
\* there are min(3, number of such groups) of them, and each is CRITICAL with
\* priority 1 if and only if its group's rate is >= 60, otherwise WARNING with
\* priority 2.
C22_DesqualificacaoInsights ==
    (/\ Returned("generate_insights")
     /\ ret.exc = NoExc
     /\ Len(ret.val) < call.max_insights) =>
        LET D == Titled("Alta Taxa de Desqualificação")
        IN /\ Cardinality(D) = Min(3, Cardinality(HighDesqualificacao))
           /\ \A k, l \in D : ret.val[k].campaign = ret.val[l].campaign => k = l
           /\ \A k \in D :
                \E j \in HighDesqualificacao :
                    LET m == QualifyingMetrics[j]
                        critical == RatLeq(Num(60), taxa_desqualificacao(m))
                    IN /\ ret.val[k].campaign = m.name
                       /\ ret.val[k].metric_value = taxa_desqualificacao(m)
                       /\ critical <=> (ret.val[k].type = CRITICAL /\ ret.val[k].priority = 1)
                       /\ ~critical => (ret.val[k].type = WARNING /\ ret.val[k].priority = 2)

\* An untruncated list with three disqualification insights, CRITICAL and
\* WARNING among them, for a collection in which four groups reach 40.
C22_Witness ==
    /\ Returned("generate_insights")
    /\ Len(ret.val) < call.max_insights
    /\ Cardinality(HighDesqualificacao) = 4
    /\ Cardinality(Titled("Alta Taxa de Desqualificação")) = 3
    /\ \E k, l \in Titled("Alta Taxa de Desqualificação") :
        ret.val[k].type = CRITICAL /\ ret.val[l].type = WARNING

\* generate_insights returned, with a previous period that has leads and a
\* current group of 5 or more leads, a list from which nothing was cut.
RegressionRulesRan ==
    /\ Returned("generate_insights")
    /\ ret.exc = NoExc
    /\ HasPrevious
    /\ ~empty(Get(Self.df_anterior))
    /\ Qualifying(call.dimension) # {}
    /\ Len(ret.val) < call.max_insights
ComparedGroups ==
    GroupsOf(CurrentView, call.dimension) \cup GroupsOf(PreviousView, call.dimension)
CampaignsTitled(title) == {ret.val[k].campaign : k \in Titled(title)}

\* C23: with a comparison and a qualifying current group, the CRITICAL 'Queda
\* em Vendas' insights are for exactly the groups whose sales dropped by at
\* least 20% from a previous sales count of 3 or more; a drop of exactly 20%
\* is flagged.
C23_SalesDropFlagged ==
    RegressionRulesRan =>
        /\ CampaignsTitled("Queda em Vendas") =
            {v \in ComparedGroups :
                LET previous == SalesOf(PreviousView, call.dimension, v)
                    current == SalesOf(CurrentView, call.dimension, v)
                IN previous >= 3 /\ (previous - current) * 100 >= 20 * previous}
        /\ \A k \in Titled("Queda em Vendas") : ret.val[k].type = CRITICAL

\* The disqualification rate of group v among metrics ms, 0 for an absent
\* group.
DesqualificacaoOf(ms, v) ==
    IF \E j \in DOMAIN ms : ms[j].name = v
    THEN taxa_desqualificacao(ms[CHOOSE j \in DOMAIN ms : ms[j].name = v])
    ELSE Zero

\* C24: with a comparison and a qualifying current group, the WARNING
\* 'Aumento em Desqualificação' insights are for exactly the groups whose
\* disqualification rate rose by at least 15 percentage points to a current
\* rate of at least 30; a rise of exactly 15 points is flagged.
C24_DesqualificacaoRiseFlagged ==
    RegressionRulesRan =>
        /\ CampaignsTitled("Aumento em Desqualificação") =
            {v \in ComparedGroups :
                LET current ==
                        DesqualificacaoOf(
                            get_campaign_metrics(Self, call.dimension, 1).val, v)
                    previous ==
                        DesqualificacaoOf(
                            get_campaign_metrics(AnalyzerAnterior(Self),
                                                 call.dimension, 1).val, v)
                IN /\ RatLeq(Num(15), RatSub(current, previous))
                   /\ RatLeq(Num(30), current)}
        /\ \A k \in Titled("Aumento em Desqualificação") : ret.val[k].type = WARNING

\* C25: once the analyzer is constructed, no call of get_campaign_metrics,
\* compare_periods or generate_insights, in any order and any number of
\* times, changes the caller's current or previous collection or the
\* analyzer's normalized views and configuration; constructing it leaves the
\* caller's collections unchanged.
C25_CallsLeaveStateUnchanged ==
    [][/\ df_leads' = df_leads
       /\ df_leads_anterior' = df_leads_anterior
       /\ analyzer # None => analyzer' = analyzer]_vars

\* compare_periods returned comparisons on an analyzer whose previous view
\* holds an empty attribution value that a second normalization would
\* rewrite.
C25_Witness ==
    /\ Returned("compare_periods")
    /\ ret.val # <<>>
    /\ HasPrevious
    /\ \E i \in DOMAIN Get(Self.df_anterior).rows :
        Get(Self.df_anterior).rows[i].utm_medium = ""
    /\ PreviousView # Get(Self.df_anterior)

\* The leads of group v of the current view, as a collection of their own.
GroupFrame(dimension, v) ==
    [columns |-> CurrentView.columns,
     rows |-> SelectSeq(CurrentView.rows, LAMBDA row : row[dimension] = v)]

\* C27: for an analyzer built with the configured DEMO_COMPLETED_STATUSES,
\* the demos_realizadas of every group returned by get_campaign_metrics
\* equals calcular_demos_realizadas applied without a window to the leads of
\* that group.
C27_DemosRealizadasAgree ==
    (/\ Returned("get_campaign_metrics")
     /\ ret.exc = NoExc
     /\ Self.demo_completed_statuses = DEMO_COMPLETED_STATUSES) =>
        \A k \in DOMAIN ret.val :
            ret.val[k].demos_realizadas =
                calcular_demos_realizadas(
                    GroupFrame(call.dimension, ret.val[k].name), None, None).val

\* C28: generate_insights returns at most max_insights insights, for every
\* current and previous collection and every max_insights >= 0; for 0 the
\* list is empty.
C28_AtMostMaxInsights ==
    (Returned("generate_insights") /\ ret.exc = NoExc /\ call.max_insights >= 0) =>
        Len(ret.val) <= call.max_insights

\* C29: the list generate_insights returns is the same for every order in
\* which the set of group names built in compare_periods can be iterated.
C29_IndependentOfIterationOrder ==
    Returned("generate_insights") =>
        \A order \in Orders(DOMAIN compare_periods(Self, call.dimension).val) :
            generate_insights(Self, call.dimension, call.max_insights, order).val = ret.val

\* C26: check_rate_limit(key) leaves the recorded timestamps of every key
\* unchanged, so that is_allowed answers afterwards as it would have
\* answered before, for every key and at every later time.
C26_CheckDoesNotConsume ==
    [][call'.op = "check_rate_limit" =>
        /\ Get(limiter')._requests = Get(limiter)._requests
        /\ \A key \in Keys, step \in Steps :
            is_allowed(Get(limiter'), key, call'.now + step).val
                = is_allowed(Get(limiter), key, call'.now + step).val]_vars

\* The calls on key answered True at a time in the window (t - seconds, t].
Granted(key, t, seconds) ==
    {i \in DOMAIN answered :
        /\ answered[i].key = key
        /\ answered[i].val
        /\ t - seconds < answered[i].now
        /\ answered[i].now <= t}

\* In every window that ends at a call, the calls answered True are within
\* the three limits.
WithinLimits ==
    limiter # None =>
        \A i \in DOMAIN answered :
            LET key == answered[i].key
                t == answered[i].now
                config == Get(limiter).config
            IN /\ Cardinality(Granted(key, t, 1)) <= config.burst_limit
               /\ Cardinality(Granted(key, t, 60)) <= config.requests_per_minute
               /\ Cardinality(Granted(key, t, 3600)) <= config.requests_per_hour

\* A call answered False appended no timestamp: what is recorded for each key
\* is what was recorded before, less the timestamps that expired.
DeniedRecordsNothing ==
    (limiter # None /\ answered' # answered /\ ~ret'.val) =>
        \A key \in Keys :
            \E n \in 0..Len(Get(limiter)._requests[key]) :
                Get(limiter')._requests[key] =
                    SubSeq(Get(limiter)._requests[key], n + 1,
                           Len(Get(limiter)._requests[key]))

\* A call on one key leaves the timestamps of every other key, and the
\* answers is_allowed gives for it, as they were.
KeysIsolated ==
    (limiter # None /\ answered' # answered) =>
        \A key \in Keys \ {call'.key} :
            /\ Get(limiter')._requests[key] = Get(limiter)._requests[key]
            /\ \A step \in Steps :
                is_allowed(Get(limiter'), key, call'.now + step).val
                    = is_allowed(Get(limiter), key, call'.now + step).val

====
